---- MODULE Spec2Model ----
(***************************************************************************)
(* Model of pdf_adjective_counter.py: the word list loader, the reference  *)
(* section boundary detector (strip_references), the lexical counter       *)
(* (count_adjectives) and the document pipeline (process_pdfs).            *)
(*                                                                         *)
(* A Python str is a sequence of characters; a character is a string.      *)
(* ASCII characters are one-character strings, the two non-ASCII dashes    *)
(* the source names are the atoms EnDash and EmDash.  Offsets are 0-based  *)
(* as in Python: offset p lies before the character s[p + 1].              *)
(***************************************************************************)
EXTENDS Integers, Sequences, FiniteSets, TLC

(***************************************************************************)
(* Characters and the Python string methods the program calls.             *)
(***************************************************************************)
EnDash == "<U+2013>"

EmDash == "<U+2014>"

UpperSeq == <<"A","B","C","D","E","F","G","H","I","J","K","L","M","N","O","P","Q","R","S","T","U","V","W","X","Y","Z">>

LowerSeq == <<"a","b","c","d","e","f","g","h","i","j","k","l","m","n","o","p","q","r","s","t","u","v","w","x","y","z">>

UpperChars == {UpperSeq[i] : i \in 1..Len(UpperSeq)}

LowerChars == {LowerSeq[i] : i \in 1..Len(LowerSeq)}

DigitChars == {"0", "1", "2", "3", "4", "5", "6", "7", "8", "9"}

\* str.isspace / the regular expression class \s
SpaceChars == {" ", "\t", "\n", "\r", "\f"}

\* the regular expression class \w
WordChars == UpperChars \cup LowerChars \cup DigitChars \cup {"_"}

\* the line boundaries of str.splitlines ("\r\n" counts as one)
LineBreakChars == {"\n", "\r", "\f"}

LowerOf == [c \in UpperChars |-> LowerSeq[CHOOSE i \in 1..Len(UpperSeq) : UpperSeq[i] = c]]

\* one character of str.lower(), and the case folding of re.IGNORECASE
Fold(c) == IF c \in UpperChars THEN LowerOf[c] ELSE c

\* str.lower()
Lower(s) == [i \in 1..Len(s) |-> Fold(s[i])]

SetMin(S) == CHOOSE m \in S : \A n \in S : m <= n

\* s[:k] for 0 <= k
Prefix(s, k) == SubSeq(s, 1, IF k < Len(s) THEN k ELSE Len(s))

\* str.strip()
Strip(s) ==
    LET Keep == {i \in 1..Len(s) : s[i] \notin SpaceChars}
    IN IF Keep = {} THEN << >>
       ELSE SubSeq(s, SetMin(Keep), CHOOSE m \in Keep : \A n \in Keep : n <= m)

\* str.startswith(t)
StartsWith(s, t) == Len(t) <= Len(s) /\ SubSeq(s, 1, Len(t)) = t

\* str.find(t): the lowest offset at which t occurs in s, -1 if none
Find(s, t) ==
    LET At == {p \in 0..(Len(s) - Len(t)) : SubSeq(s, p + 1, p + Len(t)) = t}
    IN IF At = {} THEN -1 ELSE SetMin(At)

RECURSIVE SplitFrom(_, _)
\* the lines of s from offset p on, as str.splitlines() cuts them
SplitFrom(s, p) ==
    IF p >= Len(s) THEN << >>
    ELSE LET Brk == {q \in p..(Len(s) - 1) : s[q + 1] \in LineBreakChars}
         IN IF Brk = {} THEN <<SubSeq(s, p + 1, Len(s))>>
            ELSE LET e == SetMin(Brk)
                     nxt == IF s[e + 1] = "\r" /\ e + 1 < Len(s) /\ s[e + 2] = "\n"
                            THEN e + 2 ELSE e + 1
                 IN <<SubSeq(s, p + 1, e)>> \o SplitFrom(s, nxt)

\* str.splitlines()
SplitLines(s) == SplitFrom(s, 0)

RECURSIVE Join(_, _)
\* sep.join(parts)
Join(sep, parts) ==
    IF Len(parts) = 0 THEN << >>
    ELSE IF Len(parts) = 1 THEN parts[1]
    ELSE parts[1] \o sep \o Join(sep, Tail(parts))

RECURSIVE Concat(_)
\* "".join(parts)
Concat(parts) == IF Len(parts) = 0 THEN << >> ELSE parts[1] \o Concat(Tail(parts))

RECURSIVE SumSeq(_)
\* sum(values)
SumSeq(vs) == IF Len(vs) = 0 THEN 0 ELSE vs[1] + SumSeq(Tail(vs))

(***************************************************************************)
(* The regular expressions of the program.  A pattern is a syntax tree;    *)
(* ReEnds(re, s, P) is the set of offsets at which a match of re that      *)
(* starts at some offset of P can end.  A backtracking matcher finds a     *)
(* match from offset p exactly when ReEnds(re, s, {p}) is not empty.  All  *)
(* patterns of the program are compiled with re.IGNORECASE.                *)
(***************************************************************************)
Unbounded == -1

Lit(str) == [t |-> "lit", s |-> str]

Cls(chars) == [t |-> "cls", c |-> chars]

Dot == [t |-> "dot"]

Cat(res) == [t |-> "cat", rs |-> res]

Alt(res) == [t |-> "alt", rs |-> res]

Rep(re, lo, hi) == [t |-> "rep", r |-> re, m |-> lo, n |-> hi]

Opt(re) == Rep(re, 0, 1)

Star(re) == Rep(re, 0, Unbounded)

Plus(re) == Rep(re, 1, Unbounded)

\* ^ without re.MULTILINE
Bos == [t |-> "bos"]

\* ^ with re.MULTILINE
Bol == [t |-> "bol"]

\* $ with re.MULTILINE
Eol == [t |-> "eol"]

\* \b
Wb == [t |-> "wb"]

ReS == Cls(SpaceChars)

ReD == Cls(DigitChars)

IsWordAt(s, i) == i >= 1 /\ i <= Len(s) /\ s[i] \in WordChars

RECURSIVE ReEnds(_, _, _)
RECURSIVE CatEnds(_, _, _, _)
RECURSIVE RepEnds(_, _, _, _, _)
ReEnds(re, s, P) ==
    IF P = {} THEN {}
    ELSE CASE re.t = "lit" ->
                {p + Len(re.s) : p \in {q \in P : /\ q + Len(re.s) <= Len(s)
                                                  /\ \A k \in 1..Len(re.s) :
                                                        Fold(s[q + k]) = Fold(re.s[k])}}
           [] re.t = "cls" ->
                {p + 1 : p \in {q \in P : /\ q < Len(s)
                                          /\ Fold(s[q + 1]) \in {Fold(c) : c \in re.c}}}
           [] re.t = "dot" ->
                {p + 1 : p \in {q \in P : q < Len(s) /\ s[q + 1] # "\n"}}
           [] re.t = "cat" -> CatEnds(re.rs, 1, s, P)
           [] re.t = "alt" -> UNION {ReEnds(re.rs[i], s, P) : i \in 1..Len(re.rs)}
           [] re.t = "rep" -> RepEnds(re.r, re.m, re.n, s, P)
           [] re.t = "bos" -> {p \in P : p = 0}
           [] re.t = "bol" -> {p \in P : p = 0 \/ s[p] = "\n"}
           [] re.t = "eol" -> {p \in P : p = Len(s) \/ s[p + 1] = "\n"}
           [] re.t = "wb" -> {p \in P : IsWordAt(s, p) # IsWordAt(s, p + 1)}

CatEnds(res, i, s, P) ==
    IF i > Len(res) \/ P = {} THEN P
    ELSE CatEnds(res, i + 1, s, ReEnds(res[i], s, P))

\* between lo and hi repetitions of re; every repeated pattern of the program
\* consumes at least one character, so the offsets strictly advance
RepEnds(re, lo, hi, s, P) ==
    IF P = {} THEN {}
    ELSE IF hi = 0 THEN P
    ELSE LET more == RepEnds(re, IF lo > 0 THEN lo - 1 ELSE 0,
                             IF hi = Unbounded THEN Unbounded ELSE hi - 1,
                             s, ReEnds(re, s, P))
         IN IF lo > 0 THEN more ELSE P \cup more

\* the offsets at which a match of re starts
MatchStarts(re, s) == {p \in 0..Len(s) : ReEnds(re, s, {p}) # {}}

\* re.search(re, s) is not None
ReSearch(re, s) == ReEnds(re, s, 0..Len(s)) # {}

\* the start of the first match re.finditer yields, -1 if it yields none
FirstMatchStart(re, s) ==
    LET M == MatchStarts(re, s) IN IF M = {} THEN -1 ELSE SetMin(M)

RECURSIVE ScanMatches(_, _, _, _)
\* the leftmost-first, non-overlapping scan of re.findall from offset pos on:
\* the starts of the matches it returns, in order (the patterns it is used
\* on have one possible end for a given start)
ScanMatches(re, s, M, pos) ==
    LET C == {p \in M : p >= pos}
    IN IF C = {} THEN << >>
       ELSE LET p == SetMin(C)
                e == SetMin(ReEnds(re, s, {p}))
            IN <<p>> \o ScanMatches(re, s, M, IF e > p THEN e ELSE p + 1)

\* the starts of the matches of re.findall(re, s)
Findall(re, s) == ScanMatches(re, s, MatchStarts(re, s), 0)

\* len(re.findall(re, s))
FindallCount(re, s) == Len(Findall(re, s))

(***************************************************************************)
(* Program constants.                                                      *)
(***************************************************************************)
DEFAULT_ADJECTIVES == <<
    <<"c","o","m","m","e","n","d","a","b","l","e">>, <<"i","n","n","o","v","a","t","i","v","e">>, <<"m","e","t","i","c","u","l","o","u","s">>, <<"i","n","t","r","i","c","a","t","e">>, <<"n","o","t","a","b","l","e">>,
    <<"v","e","r","s","a","t","i","l","e">>, <<"n","o","t","e","w","o","r","t","h","y">>, <<"i","n","v","a","l","u","a","b","l","e">>, <<"p","i","v","o","t","a","l">>, <<"p","o","t","e","n","t">>,
    <<"f","r","e","s","h">>, <<"i","n","g","e","n","i","o","u","s">>, <<"c","o","g","e","n","t">>, <<"o","n","g","o","i","n","g">>, <<"t","a","n","g","i","b","l","e">>,
    <<"p","r","o","f","o","u","n","d">>, <<"m","e","t","h","o","d","i","c","a","l">>, <<"l","a","u","d","a","b","l","e">>, <<"l","u","c","i","d">>, <<"a","p","p","r","e","c","i","a","b","l","e">>,
    <<"f","a","s","c","i","n","a","t","i","n","g">>, <<"a","d","a","p","t","a","b","l","e">>, <<"a","d","m","i","r","a","b","l","e">>, <<"r","e","f","r","e","s","h","i","n","g">>, <<"p","r","o","f","i","c","i","e","n","t">>,
    <<"i","n","t","r","i","g","u","i","n","g">>, <<"t","h","o","u","g","h","t","f","u","l">>, <<"c","r","e","d","i","b","l","e">>, <<"e","x","c","e","p","t","i","o","n","a","l">>, <<"d","i","g","e","s","t","i","b","l","e">>,
    <<"p","r","e","v","a","l","e","n","t">>, <<"i","n","t","e","r","p","r","e","t","a","t","i","v","e">>, <<"r","e","m","a","r","k","a","b","l","e">>, <<"s","e","a","m","l","e","s","s">>, <<"e","c","o","n","o","m","i","c","a","l">>,
    <<"p","r","o","a","c","t","i","v","e">>, <<"i","n","t","e","r","d","i","s","c","i","p","l","i","n","a","r","y">>, <<"s","u","s","t","a","i","n","a","b","l","e">>, <<"o","p","t","i","m","i","z","a","b","l","e">>, <<"c","o","m","p","r","e","h","e","n","s","i","v","e">>,
    <<"v","i","t","a","l">>, <<"p","r","a","g","m","a","t","i","c">>, <<"c","o","m","p","r","e","h","e","n","s","i","b","l","e">>, <<"u","n","i","q","u","e">>, <<"f","u","l","l","e","r">>,
    <<"a","u","t","h","e","n","t","i","c">>, <<"f","o","u","n","d","a","t","i","o","n","a","l">>, <<"d","i","s","t","i","n","c","t","i","v","e">>, <<"p","e","r","t","i","n","e","n","t">>, <<"v","a","l","u","a","b","l","e">>,
    <<"i","n","v","a","s","i","v","e">>, <<"s","p","e","e","d","y">>, <<"i","n","h","e","r","e","n","t">>, <<"c","o","n","s","i","d","e","r","a","b","l","e">>, <<"h","o","l","i","s","t","i","c">>,
    <<"i","n","s","i","g","h","t","f","u","l">>, <<"o","p","e","r","a","t","i","o","n","a","l">>, <<"s","u","b","s","t","a","n","t","i","a","l">>, <<"c","o","m","p","e","l","l","i","n","g">>, <<"t","e","c","h","n","o","l","o","g","i","c","a","l">>,
    <<"b","e","n","e","f","i","c","i","a","l">>, <<"e","x","c","e","l","l","e","n","t">>, <<"k","e","e","n">>, <<"c","u","l","t","u","r","a","l">>, <<"u","n","a","u","t","h","o","r","i","z","e","d">>,
    <<"s","t","r","a","t","e","g","i","c">>, <<"e","x","p","a","n","s","i","v","e">>, <<"p","r","o","s","p","e","c","t","i","v","e">>, <<"v","i","v","i","d">>, <<"c","o","n","s","e","q","u","e","n","t","i","a","l">>,
    <<"m","a","n","a","g","e","a","b","l","e">>, <<"u","n","p","r","e","c","e","d","e","n","t","e","d">>, <<"i","n","c","l","u","s","i","v","e">>, <<"a","s","y","m","m","e","t","r","i","c","a","l">>, <<"c","o","h","e","s","i","v","e">>,
    <<"r","e","p","l","i","c","a","b","l","e">>, <<"q","u","i","c","k","e","r">>, <<"d","e","f","e","n","s","i","v","e">>, <<"w","i","d","e","r">>, <<"i","m","a","g","i","n","a","t","i","v","e">>,
    <<"t","r","a","d","i","t","i","o","n","a","l">>, <<"c","o","m","p","e","t","e","n","t">>, <<"c","o","n","t","e","n","t","i","o","u","s">>, <<"w","i","d","e","s","p","r","e","a","d">>, <<"e","n","v","i","r","o","n","m","e","n","t","a","l">>,
    <<"i","n","s","t","r","u","m","e","n","t","a","l">>, <<"s","u","b","s","t","a","n","t","i","v","e">>, <<"c","r","e","a","t","i","v","e">>, <<"a","c","a","d","e","m","i","c">>, <<"s","i","z","e","a","b","l","e">>,
    <<"e","x","t","a","n","t">>, <<"d","e","m","o","n","s","t","r","a","b","l","e">>, <<"p","r","u","d","e","n","t">>, <<"p","r","a","c","t","i","c","a","b","l","e">>, <<"s","i","g","n","a","t","o","r","y">>,
    <<"c","o","n","t","i","n","e","n","t","a","l">>, <<"u","n","n","o","t","i","c","e","d">>, <<"a","u","t","o","m","o","t","i","v","e">>, <<"m","i","n","i","m","a","l","i","s","t","i","c">>, <<"i","n","t","e","l","l","i","g","e","n","t">>
>>

_REFERENCE_HEADINGS == <<
    Cat(<<Lit(<<"R","e","f","e","r","e","n","c","e">>), Opt(Lit(<<"s">>))>>),
    Cat(<<Lit(<<"B","i","b","l","i","o","g","r","a","p","h">>), Alt(<<Lit(<<"y">>), Lit(<<"i","e","s">>)>>)>>),
    Cat(<<Lit(<<"W","o","r","k","s">>), Plus(ReS), Lit(<<"C","i","t","e","d">>)>>),
    Cat(<<Lit(<<"L","i","t","e","r","a","t","u","r","e">>), Plus(ReS), Lit(<<"C","i","t","e","d">>)>>),
    Cat(<<Lit(<<"C","i","t","a","t","i","o","n">>), Opt(Lit(<<"s">>))>>),
    Cat(<<Lit(<<"S","o","u","r","c","e">>), Opt(Lit(<<"s">>))>>),
    Cat(<<Lit(<<"R","e","f","e","r","e","n","c","e","s">>), Plus(ReS), Lit(<<"a","n","d">>), Plus(ReS), Lit(<<"N","o","t","e","s">>)>>),
    Lit(<<"N","o","t","e","s">>),
    Lit(<<"E","n","d","n","o","t","e","s">>),
    Lit(<<"F","o","o","t","n","o","t","e","s">>),
    Cat(<<Lit(<<"A","p","p","e","n","d","i","x">>), Opt(Lit(<<"e","s">>))>>),
    Cat(<<Lit(<<"S","u","p","p","l","e","m","e","n","t","a","r">>), Alt(<<Lit(<<"y">>), Lit(<<"i","e","s">>)>>), Plus(ReS),
          Lit(<<"M","a","t","e","r","i","a","l">>), Opt(Lit(<<"s">>))>>),
    Cat(<<Lit(<<"S","u","p","p","l","e","m","e","n","t","a","l">>), Plus(ReS), Lit(<<"M","a","t","e","r","i","a","l">>), Opt(Lit(<<"s">>))>>)
>>

\* (?im)^\s*(?:\d+\.?|[IVXLC]+\.?)?\s*(?:<headings>)\s*[:\-<en dash><em dash>]?\s*$
_REFERENCE_SPLIT_RX ==
    Cat(<<Bol, Star(ReS),
          Opt(Alt(<<Cat(<<Plus(ReD), Opt(Lit(<<".">>))>>),
                    Cat(<<Plus(Cls({"I", "V", "X", "L", "C"})), Opt(Lit(<<".">>))>>)>>)),
          Star(ReS),
          Alt(_REFERENCE_HEADINGS),
          Star(ReS), Opt(Cls({":", "-", EnDash, EmDash})), Star(ReS), Eol>>)

(***************************************************************************)
(* strip_references                                                        *)
(***************************************************************************)
\* the five patterns of looks_like_reference, in the order of the list
patterns == <<
    \* ^[\[(]?\s*\d{1,3}[\])\.]?\s+
    Cat(<<Bos, Opt(Cls({"[", "("})), Star(ReS), Rep(ReD, 1, 3),
          Opt(Cls({"]", ")", "."})), Plus(ReS)>>),
    \* \b(19\d{2}|20\d{2})\b.*[,\.;]
    Cat(<<Wb, Alt(<<Cat(<<Lit(<<"1","9">>), Rep(ReD, 2, 2)>>), Cat(<<Lit(<<"2","0">>), Rep(ReD, 2, 2)>>)>>),
          Wb, Star(Dot), Cls({",", ".", ";"})>>),
    \* doi:|https?://doi\.org/
    Alt(<<Lit(<<"d","o","i",":">>), Cat(<<Lit(<<"h","t","t","p">>), Opt(Lit(<<"s">>)), Lit(<<":","/","/","d","o","i",".","o","r","g","/">>)>>)>>),
    \* \bet al\.
    Cat(<<Wb, Lit(<<"e","t"," ","a","l",".">>)>>),
    \* \b\d{2,4}\s*[<en dash>\-]\s*\d{2,4}\b
    Cat(<<Wb, Rep(ReD, 2, 4), Star(ReS), Cls({EnDash, "-"}), Star(ReS), Rep(ReD, 2, 4), Wb>>)
>>

looks_like_reference(line) ==
    LET stripped == Strip(line)
    IN IF stripped = << >> THEN FALSE
       ELSE \E k \in 1..Len(patterns) : ReSearch(patterns[k], stripped)

window_size == 4

\* a scan that asks for every line of a window
threshold_all == window_size

threshold == 3

\* a window that takes one line too few
WindowShort(lines, i) ==
    SubSeq(lines, i + 1,
           IF i + window_size - 1 < Len(lines) THEN i + window_size - 1 ELSE Len(lines))

\* lines[i:i + window_size]
Window(lines, i) ==
    SubSeq(lines, i + 1, IF i + window_size < Len(lines) THEN i + window_size ELSE Len(lines))

\* sum(looks_like_reference(line) for line in window)
WindowScore(window) ==
    Cardinality({k \in 1..Len(window) : looks_like_reference(window[k])})

RECURSIVE SlidingWindow(_, _)
\* the loop "for i in range(len(lines))" from index i on: the first index
\* whose window reaches the threshold, -1 when the loop runs out
SlidingWindow(lines, i) ==
    IF i >= Len(lines) THEN -1
    ELSE IF WindowScore(Window(lines, i)) >= threshold THEN i
    ELSE SlidingWindow(lines, i + 1)

\* a join that keeps the first line of the window
JoinHeadInclusive(lines, i) == Join(<<"\n">>, SubSeq(lines, 1, i + 1))

\* "\n".join(lines[:i])
JoinHead(lines, i) == Join(<<"\n">>, SubSeq(lines, 1, i))

\* the fallback: "references" in the latter half (ref_pos > len(text) * 0.5)
Fallback(text) ==
    LET ref_pos == Find(Lower(text), <<"r","e","f","e","r","e","n","c","e","s">>)
    IN IF ref_pos # -1 /\ 2 * ref_pos > Len(text) THEN Prefix(text, ref_pos) ELSE text

strip_references(text) ==
    LET start == FirstMatchStart(_REFERENCE_SPLIT_RX, text)
    IN IF start # -1 THEN Prefix(text, start)
       ELSE LET lines == SplitLines(text)
                i == SlidingWindow(lines, 0)
            IN IF i # -1 THEN JoinHead(lines, i) ELSE Fallback(text)

(***************************************************************************)
(* count_adjectives                                                        *)
(***************************************************************************)
\* r"\b" + re.escape(adj) + r"\b": the escaped word matches itself literally
pattern(adj) == Cat(<<Wb, Lit(adj), Wb>>)

\* a list of pairs in place of the dict: a repeated key gets a second entry
DictSetAppend(counts, key, n) == Append(counts, <<key, n>>)

\* counts[adj] = n on a dict, kept as its items in insertion order
DictSet(counts, key, n) ==
    IF \E k \in 1..Len(counts) : counts[k][1] = key
    THEN [k \in 1..Len(counts) |-> IF counts[k][1] = key THEN <<key, n>> ELSE counts[k]]
    ELSE Append(counts, <<key, n>>)

RECURSIVE CountLoop(_, _, _, _)
\* the loop "for adj in adjectives" from index k on
CountLoop(text, adjectives, k, counts) ==
    IF k > Len(adjectives) THEN counts
    ELSE CountLoop(text, adjectives, k + 1,
                   DictSet(counts, adjectives[k], FindallCount(pattern(adjectives[k]), text)))

\* counts.values()
DictValues(counts) == [k \in 1..Len(counts) |-> counts[k][2]]

\* counts.keys()
DictKeys(counts) == [k \in 1..Len(counts) |-> counts[k][1]]

\* returns <<counts, total>>
count_adjectives(text, adjectives) ==
    LET counts == CountLoop(text, adjectives, 1, << >>)
    IN <<counts, SumSeq(DictValues(counts))>>

(***************************************************************************)
(* State.  Four runs of the program are modelled: process_pdfs over a      *)
(* batch of documents (Spec), one call of strip_references followed by a   *)
(* second call on its result (SpecStrip), one call of count_adjectives     *)
(* (SpecCount) and one call of load_adjectives_from_file (SpecLoad).  The  *)
(* variables of the runs a specification does not make stay idle.          *)
(***************************************************************************)
VARIABLES
    \* process_pdfs: its arguments and locals
    jobs, adjectives, exclude_refs, i, text, pages, results, pc,
    \* strip_references: argument, result, result of the call on the result
    strip_text, strip_body, strip_again, strip_pc,
    \* count_adjectives: arguments and result
    count_text, count_words, counts, total, count_pc,
    \* load_adjectives_from_file: the file, locals and the returned list
    file_exists, file_lines, file_fault, words, lines_read, loaded, load_pc

pipeline_vars == <<jobs, adjectives, exclude_refs, i, text, pages, results, pc>>

strip_vars == <<strip_text, strip_body, strip_again, strip_pc>>

count_vars == <<count_text, count_words, counts, total, count_pc>>

load_vars == <<file_exists, file_lines, file_fault, words, lines_read, loaded, load_pc>>

vars == <<pipeline_vars, strip_vars, count_vars, load_vars>>

PipelineIdle ==
    /\ jobs = << >> /\ adjectives = << >> /\ exclude_refs = FALSE /\ i = 0
    /\ text = << >> /\ pages = 0 /\ results = << >> /\ pc = "idle"

StripIdle ==
    strip_text = << >> /\ strip_body = << >> /\ strip_again = << >> /\ strip_pc = "idle"

CountIdle ==
    /\ count_text = << >> /\ count_words = << >> /\ counts = << >> /\ total = 0
    /\ count_pc = "idle"

LoadIdle ==
    /\ file_exists = FALSE /\ file_lines = << >> /\ file_fault = {} /\ words = << >>
    /\ lines_read = 0 /\ loaded = << >> /\ load_pc = "idle"

(***************************************************************************)
(* process_pdfs.  A document is what the PDF library makes of a file:      *)
(* whether it opens, and for each page what extract_text() does: it        *)
(* returns a text, returns None, or raises.                                *)
(***************************************************************************)
PageText(str) == [outcome |-> "text", text |-> str]

PageNone == [outcome |-> "none", text |-> << >>]

PageRaises == [outcome |-> "raises", text |-> << >>]

Scenario1Text == <<"T","h","i","s"," ","i","s"," ","a","n"," ","i","n","n","o","v","a","t","i","v","e"," ","a","n","d"," ","m","e","t","i","c","u","l","o","u","s"," ","s","t","u","d","y","."," ","R","e","f","e","r","e","n","c","e","s","\n","[","1","]"," ","S","m","i","t","h",","," ","J","."," ","2","0","2","0",".","\n","[","2","]"," ","L","e","e",","," ","K","."," ","2","0","1","9",","," ","p","p","."," ","1","0","-","2","0",".","\n","[","3","]"," ","P","a","r","k",","," ","S","."," ","e","t"," ","a","l","."," ","2","0","2","1",".">>

Scenario1Words == <<<<"i","n","n","o","v","a","t","i","v","e">>, <<"m","e","t","i","c","u","l","o","u","s">>>>

Scenario1Doc == [folder |-> "A", filename |-> "scenario1.pdf", opens |-> TRUE,
                 page_texts |-> <<PageText(Scenario1Text)>>]

Documents == {
    Scenario1Doc,
    [folder |-> "A", filename |-> "corrupt.pdf", opens |-> FALSE, page_texts |-> << >>],
    [folder |-> "B", filename |-> "scanned.pdf", opens |-> TRUE,
     page_texts |-> <<PageRaises, PageNone, PageText(<< >>)>>],
    [folder |-> "B", filename |-> "backmatter.pdf", opens |-> TRUE,
     page_texts |-> <<PageText(<<"N","o","t","e","s","\n","A","n"," ","i","n","n","o","v","a","t","i","v","e"," ","n","o","t","e",".">>)>>],
    [folder |-> "A", filename |-> "paper.pdf", opens |-> TRUE,
     page_texts |-> <<PageText(<<"A","n"," ","i","n","n","o","v","a","t","i","v","e",","," ","I","N","N","O","V","A","T","I","V","E"," ","i","d","e","a",".","\n">>), PageRaises,
                    PageText(<<"M","e","t","i","c","u","l","o","u","s"," ","w","o","r","k">>)>>]
}

WordLists == {
    Scenario1Words,
    << >>,
    <<<<"i","n","n","o","v","a","t","i","v","e">>, <<"i","n","n","o","v","a","t","i","v","e">>>>,
    <<<<"m","e","t","i","c","u","l","o","u","s">>, <<"f","r","e","s","h">>, <<"m","e","t","i","c","u","l","o","u","s">>>>
}

MaxJobs == 3

JobLists == UNION {[1..n -> Documents] : n \in 0..MaxJobs}

RECURSIVE ExtractPages(_, _, _)
\* the page loop of extract_text_from_pdf from page k on
ExtractPages(page_texts, k, acc) ==
    IF k > Len(page_texts) THEN acc
    ELSE LET page == page_texts[k]
         IN ExtractPages(page_texts, k + 1,
                         IF page.outcome = "text" /\ page.text # << >>
                         THEN acc \o page.text ELSE acc)

\* returns <<text, page_count>>
extract_text_from_pdf(doc) ==
    IF ~doc.opens THEN << << >>, 0 >>
    ELSE <<ExtractPages(doc.page_texts, 1, << >>), Len(doc.page_texts)>>

InitPipeline ==
    /\ jobs \in JobLists
    /\ adjectives \in WordLists
    /\ exclude_refs \in BOOLEAN
    /\ i = 0 /\ text = << >> /\ pages = 0 /\ results = << >> /\ pc = "collected"
    /\ StripIdle /\ CountIdle /\ LoadIdle

\* "if not jobs: return []"
NoJobs ==
    /\ pc = "collected" /\ jobs = << >>
    /\ pc' = "returned"
    /\ UNCHANGED <<jobs, adjectives, exclude_refs, i, text, pages, results>>
    /\ UNCHANGED <<strip_vars, count_vars, load_vars>>

\* "results = []" and entry of the loop over jobs
BeginLoop ==
    /\ pc = "collected" /\ jobs # << >>
    /\ results' = << >>
    /\ pc' = "loop"
    /\ UNCHANGED <<jobs, adjectives, exclude_refs, i, text, pages>>
    /\ UNCHANGED <<strip_vars, count_vars, load_vars>>

\* "break" in place of "continue": the first document without text ends the batch
SkipDocumentBreak ==
    /\ pc = "loop" /\ i < Len(jobs)
    /\ LET extracted == extract_text_from_pdf(jobs[i + 1])
       IN /\ extracted[1] = << >>
          /\ text' = extracted[1]
          /\ pages' = extracted[2]
    /\ i' = i + 1
    /\ pc' = "returned"
    /\ UNCHANGED <<jobs, adjectives, exclude_refs, results>>
    /\ UNCHANGED <<strip_vars, count_vars, load_vars>>

\* an iteration that ends in "continue": no text extracted
SkipDocument ==
    /\ pc = "loop" /\ i < Len(jobs)
    /\ LET extracted == extract_text_from_pdf(jobs[i + 1])
       IN /\ extracted[1] = << >>
          /\ text' = extracted[1]
          /\ pages' = extracted[2]
    /\ i' = i + 1
    /\ UNCHANGED <<jobs, adjectives, exclude_refs, results, pc>>
    /\ UNCHANGED <<strip_vars, count_vars, load_vars>>

\* an iteration that appends a record
ProcessDocument ==
    /\ pc = "loop" /\ i < Len(jobs)
    /\ LET doc == jobs[i + 1]
           extracted == extract_text_from_pdf(doc)
           body == IF exclude_refs THEN strip_references(extracted[1]) ELSE extracted[1]
           counted == count_adjectives(body, adjectives)
       IN /\ extracted[1] # << >>
          /\ text' = body
          /\ pages' = extracted[2]
          /\ results' = Append(results, [folder |-> doc.folder, filename |-> doc.filename,
                                         pages |-> extracted[2], counts |-> counted[1],
                                         total |-> counted[2]])
    /\ i' = i + 1
    /\ UNCHANGED <<jobs, adjectives, exclude_refs, pc>>
    /\ UNCHANGED <<strip_vars, count_vars, load_vars>>

\* the loop is exhausted: "return results"
ReturnResults ==
    /\ pc = "loop" /\ i = Len(jobs)
    /\ pc' = "returned"
    /\ UNCHANGED <<jobs, adjectives, exclude_refs, i, text, pages, results>>
    /\ UNCHANGED <<strip_vars, count_vars, load_vars>>

Next ==
    \/ NoJobs
    \/ BeginLoop
    \/ SkipDocument
    \/ ProcessDocument
    \/ ReturnResults

Spec == InitPipeline /\ [][Next]_vars

(***************************************************************************)
(* One call of strip_references, and a second call on its result.  The     *)
(* input texts are lines joined by a line break.  DeepTexts has many       *)
(* lines of two kinds (a plain line, a reference entry), with or without   *)
(* a heading as the last line; WideTexts has few lines of many kinds (an   *)
(* empty last line makes a text that ends in a line break).                *)
(***************************************************************************)
MaxDeepLines == 6

MaxWideLines == 3

DeepLines == {<<"a">>, <<"1"," ","x">>}

DeepHeading == <<"N","o","t","e","s">>

DeepBreaks == {<<"\n">>, <<"\r","\n">>}

WideLines == {
    <<"b","o","d","y"," ","t","e","x","t">>,
    <<"[","1","]"," ","x">>,
    <<"1","0","-","2","0">>,
    << >>,
    <<" ","\t">>,
    <<" "," ","2","."," ","R","e","f","e","r","e","n","c","e","s",":">>,
    <<"s","e","e"," ","r","e","f","e","r","e","n","c","e","s">>
}

WideBreaks == {<<"\n">>, <<"\r","\n">>}

LineLists(kinds, n) == UNION {[1..k -> kinds] : k \in 0..n}

DeepTexts ==
    UNION {{Join(brk, ls), Join(brk, Append(ls, DeepHeading))} :
               brk \in DeepBreaks, ls \in LineLists(DeepLines, MaxDeepLines)}

WideTexts == {Join(brk, ls) : brk \in WideBreaks, ls \in LineLists(WideLines, MaxWideLines)}

StripTexts == DeepTexts \cup WideTexts

InitStrip ==
    /\ strip_text \in StripTexts
    /\ strip_body = << >> /\ strip_again = << >> /\ strip_pc = "called"
    /\ PipelineIdle /\ CountIdle /\ LoadIdle

\* body = strip_references(text)
StripCall ==
    /\ strip_pc = "called"
    /\ strip_body' = strip_references(strip_text)
    /\ strip_pc' = "returned"
    /\ UNCHANGED <<strip_text, strip_again>>
    /\ UNCHANGED <<pipeline_vars, count_vars, load_vars>>

\* strip_references(body)
StripAgain ==
    /\ strip_pc = "returned"
    /\ strip_again' = strip_references(strip_body)
    /\ strip_pc' = "returned again"
    /\ UNCHANGED <<strip_text, strip_body>>
    /\ UNCHANGED <<pipeline_vars, count_vars, load_vars>>

NextStrip ==
    \/ StripCall
    \/ StripAgain

SpecStrip == InitStrip /\ [][NextStrip]_vars

(***************************************************************************)
(* One call of count_adjectives.  The texts are all strings up to          *)
(* MaxCountLen over a letter in both cases, a hyphen and a space; the      *)
(* word lists are made of entries a word list file can hold (trimmed,      *)
(* lower case, not empty): plain words and words with a hyphen.            *)
(***************************************************************************)
MaxCountLen == 5

MaxCountWords == 2

CountChars == {"a", "A", "-", " "}

CountEntries == {<<"a">>, <<"a","a">>, <<"a","-","a">>, <<"a","-">>}

CountTexts == UNION {[1..n -> CountChars] : n \in 0..MaxCountLen}

CountLists == UNION {[1..n -> CountEntries] : n \in 0..MaxCountWords}

InitCount ==
    /\ count_text \in CountTexts
    /\ count_words \in CountLists
    /\ counts = << >> /\ total = 0 /\ count_pc = "called"
    /\ PipelineIdle /\ StripIdle /\ LoadIdle

\* counts, total = count_adjectives(text, adjectives)
CountCall ==
    /\ count_pc = "called"
    /\ LET counted == count_adjectives(count_text, count_words)
       IN counts' = counted[1] /\ total' = counted[2]
    /\ count_pc' = "returned"
    /\ UNCHANGED <<count_text, count_words>>
    /\ UNCHANGED <<pipeline_vars, strip_vars, load_vars>>

NextCount == CountCall

SpecCount == InitCount /\ [][NextCount]_vars

(***************************************************************************)
(* One call of load_adjectives_from_file.  The file is the lines the text  *)
(* reader yields; file_fault holds the point at which reading raises: 0    *)
(* for open(), k for the read of line k, one past the last line for the    *)
(* read that would find the end of the file; it is empty for a read        *)
(* without failure.                                                        *)
(***************************************************************************)
MaxFileLines == 3

RawLines == {<<"k","e","e","n","\n">>, <<" "," ","F","r","e","s","h"," ","\t","\n">>, <<" ","#"," ","k","e","e","n","\n">>, <<"\n">>}

FileContents == UNION {[1..n -> RawLines] : n \in 0..MaxFileLines}

\* the statements inside "try:"
TryBlock == {"open", "read"}

\* where control goes when the statement at `point` raises an Exception
OnException(point) == IF point \in TryBlock THEN "except" ELSE "raised"

InitLoad ==
    /\ file_exists \in BOOLEAN
    /\ file_lines \in (IF file_exists THEN FileContents ELSE {<< >>})
    /\ file_fault \in (IF file_exists THEN {{}} \cup {{k} : k \in 0..(Len(file_lines) + 1)}
                                     ELSE {{}})
    /\ words = << >> /\ lines_read = 0 /\ loaded = << >> /\ load_pc = "called"
    /\ PipelineIdle /\ StripIdle /\ CountIdle

\* "if os.path.isfile(filepath)" and its else branch
LoadCall ==
    /\ load_pc = "called"
    /\ IF file_exists
       THEN load_pc' = "open" /\ loaded' = loaded
       ELSE loaded' = DEFAULT_ADJECTIVES /\ load_pc' = "returned"
    /\ UNCHANGED <<file_exists, file_lines, file_fault, words, lines_read>>
    /\ UNCHANGED <<pipeline_vars, strip_vars, count_vars>>

\* "with open(...) as f: words = []"
OpenFile ==
    /\ load_pc = "open"
    /\ IF 0 \in file_fault
       THEN load_pc' = OnException("open") /\ words' = words
       ELSE load_pc' = "read" /\ words' = << >>
    /\ UNCHANGED <<file_exists, file_lines, file_fault, lines_read, loaded>>
    /\ UNCHANGED <<pipeline_vars, strip_vars, count_vars>>

\* one iteration of "for line in f"
ReadLine ==
    /\ load_pc = "read" /\ lines_read < Len(file_lines)
    /\ IF lines_read + 1 \in file_fault
       THEN load_pc' = OnException("read") /\ UNCHANGED <<words, lines_read>>
       ELSE LET line == Strip(file_lines[lines_read + 1])
            IN /\ words' = IF line # << >> /\ ~StartsWith(line, <<"#">>)
                           THEN Append(words, Lower(line)) ELSE words
               /\ lines_read' = lines_read + 1
               /\ load_pc' = load_pc
    /\ UNCHANGED <<file_exists, file_lines, file_fault, loaded>>
    /\ UNCHANGED <<pipeline_vars, strip_vars, count_vars>>

\* the end of the file: "if words: return words", else the default list
EndOfFile ==
    /\ load_pc = "read" /\ lines_read = Len(file_lines)
    /\ IF lines_read + 1 \in file_fault
       THEN load_pc' = OnException("read") /\ loaded' = loaded
       ELSE /\ loaded' = IF words # << >> THEN words ELSE DEFAULT_ADJECTIVES
            /\ load_pc' = "returned"
    /\ UNCHANGED <<file_exists, file_lines, file_fault, words, lines_read>>
    /\ UNCHANGED <<pipeline_vars, strip_vars, count_vars>>

\* a handler that returns the words read before the failure
ExceptHandlerPartial ==
    /\ load_pc = "except"
    /\ loaded' = IF words # << >> THEN words ELSE DEFAULT_ADJECTIVES
    /\ load_pc' = "returned"
    /\ UNCHANGED <<file_exists, file_lines, file_fault, words, lines_read>>
    /\ UNCHANGED <<pipeline_vars, strip_vars, count_vars>>

\* "except Exception as e:" and the return of the default list after it
ExceptHandler ==
    /\ load_pc = "except"
    /\ loaded' = DEFAULT_ADJECTIVES
    /\ load_pc' = "returned"
    /\ UNCHANGED <<file_exists, file_lines, file_fault, words, lines_read>>
    /\ UNCHANGED <<pipeline_vars, strip_vars, count_vars>>

NextLoad ==
    \/ LoadCall
    \/ OpenFile
    \/ ReadLine
    \/ EndOfFile
    \/ ExceptHandler

SpecLoad == InitLoad /\ [][NextLoad]_vars

(***************************************************************************)
(* The claims.                                                             *)
(***************************************************************************)
IsPrefix(a, b) == Len(a) <= Len(b) /\ SubSeq(b, 1, Len(a)) = a

\* the record appended for the document the loop handled last
LastRecord == results[Len(results)]

\* the loop has just handled the document of scenario 1 under its settings
Scenario1Processed ==
    /\ pc \in {"loop", "returned"} /\ i >= 1
    /\ jobs[i] = Scenario1Doc
    /\ adjectives = Scenario1Words
    /\ exclude_refs

Scenario1Body == <<"T","h","i","s"," ","i","s"," ","a","n"," ","i","n","n","o","v","a","t","i","v","e"," ","a","n","d"," ","m","e","t","i","c","u","l","o","u","s"," ","s","t","u","d","y","."," ">>

\* C1 as stated: in scenario 1 strip_references cuts by heading match, the
\* body is "This is an innovative and meticulous study. " and the counts are
\* innovative=1, meticulous=1, total=2.
C1_Stated ==
    Scenario1Processed =>
        /\ FirstMatchStart(_REFERENCE_SPLIT_RX, Scenario1Text) # -1
        /\ text = Scenario1Body
        /\ LastRecord.counts = << <<<<"i","n","n","o","v","a","t","i","v","e">>, 1>>, <<<<"m","e","t","i","c","u","l","o","u","s">>, 1>> >>
        /\ LastRecord.total = 2

\* C1 amended: in scenario 1 no line is a heading ("References" ends the
\* first line), the density scan cuts at the first window, which starts at
\* line 0, the body is empty and the counts are innovative=0, meticulous=0,
\* total=0.
C1_Scenario1 ==
    Scenario1Processed =>
        /\ FirstMatchStart(_REFERENCE_SPLIT_RX, Scenario1Text) = -1
        /\ SlidingWindow(SplitLines(Scenario1Text), 0) = 0
        /\ text = << >>
        /\ LastRecord.counts = << <<<<"i","n","n","o","v","a","t","i","v","e">>, 0>>, <<<<"m","e","t","i","c","u","l","o","u","s">>, 0>> >>
        /\ LastRecord.total = 0

C1_Witness == Scenario1Processed /\ Len(results) >= 1 /\ LastRecord.filename = "scenario1.pdf"

\* C2 as stated: strip_references returns a prefix of its input, whatever
\* the line breaks of the input, and the input itself when no strategy
\* finds a boundary.
C2_Stated ==
    strip_pc # "called" =>
        /\ IsPrefix(strip_body, strip_text)
        /\ (/\ FirstMatchStart(_REFERENCE_SPLIT_RX, strip_text) = -1
            /\ SlidingWindow(SplitLines(strip_text), 0) = -1
            /\ Fallback(strip_text) = strip_text) => strip_body = strip_text

\* C3 as stated: a second call of strip_references on the body returns the
\* body or a prefix of it, and the body is no longer than the input.
C3_Stated ==
    strip_pc = "returned again" =>
        /\ IsPrefix(strip_again, strip_body)
        /\ Len(strip_body) <= Len(strip_text)

RECURSIVE Dedup(_)
\* a word list without the repetitions of its words, first occurrences kept
Dedup(ws) ==
    IF Len(ws) = 0 THEN << >>
    ELSE LET front == Dedup(SubSeq(ws, 1, Len(ws) - 1))
             last == ws[Len(ws)]
         IN IF \E k \in 1..Len(front) : front[k] = last THEN front ELSE Append(front, last)

\* C4 as stated: every record has one count entry per word list entry, the
\* keys are the word list in order, also for a list that repeats a word,
\* and the total is the sum of the entries.
C4_Stated ==
    \A r \in 1..Len(results) :
        /\ Len(results[r].counts) = Len(adjectives)
        /\ DictKeys(results[r].counts) = adjectives
        /\ results[r].total = SumSeq(DictValues(results[r].counts))

\* C4 amended: every record has one count entry per distinct word of the
\* word list, the keys are the word list without repetitions (first
\* occurrences, in order), every count is a natural number, and the total
\* is the sum of the entries, so a repeated word adds to it once.
C4_OneEntryPerWord ==
    \A r \in 1..Len(results) :
        /\ DictKeys(results[r].counts) = Dedup(adjectives)
        /\ \A k \in 1..Len(results[r].counts) : results[r].counts[k][2] \in Nat
        /\ results[r].total = SumSeq(DictValues(results[r].counts))

C4_Witness ==
    /\ Len(results) >= 1
    /\ Len(LastRecord.counts) = 2 /\ Len(adjectives) = 3
    /\ LastRecord.counts[2][2] = 0 /\ LastRecord.counts[1][2] > 0

\* the offsets at which w occurs in s, in any letter case, with a non-word
\* character or an edge of s on both sides
BoundedOccurrences(s, w) ==
    {p \in 0..(Len(s) - Len(w)) :
        /\ Lower(SubSeq(s, p + 1, p + Len(w))) = Lower(w)
        /\ (p = 0 \/ s[p] \notin WordChars)
        /\ (p + Len(w) = Len(s) \/ s[p + Len(w) + 1] \notin WordChars)}

\* C5 as stated: the count of every word list entry is the number of its
\* occurrences, in any letter case, that have a non-word character or a
\* text edge on both sides.
C5_Stated ==
    count_pc = "returned" =>
        \A k \in 1..Len(counts) :
            counts[k][2] = Cardinality(BoundedOccurrences(count_text, counts[k][1]))

\* the character ranges <<start, end>> count_adjectives matches for w
MatchedRanges(s, w) ==
    LET starts == Findall(pattern(w), s)
    IN {<<starts[k], starts[k] + Len(w)>> : k \in 1..Len(starts)}

Overlap(r1, r2) == r1[1] < r2[2] /\ r2[1] < r1[2]

\* C6 as stated: the ranges matched for two different word list entries
\* never overlap, and the total is at most the number of distinct matched
\* ranges.
C6_Stated ==
    count_pc = "returned" =>
        /\ \A k1, k2 \in 1..Len(count_words) :
              count_words[k1] # count_words[k2] =>
                  \A r1 \in MatchedRanges(count_text, count_words[k1]) :
                      \A r2 \in MatchedRanges(count_text, count_words[k2]) :
                          ~Overlap(r1, r2)
        /\ total <= Cardinality(UNION {MatchedRanges(count_text, count_words[k]) :
                                          k \in 1..Len(count_words)})

\* extraction yields text: the file opens and a page returns a text that
\* is not empty
HasText(doc) ==
    /\ doc.opens
    /\ \E k \in 1..Len(doc.page_texts) :
          doc.page_texts[k].outcome = "text" /\ doc.page_texts[k].text # << >>

\* C7: the loop handles the documents in order and ends only past the last
\* one; the records are, in order, one per handled document with text; a
\* document with text whose body (the local text after stripping) is empty
\* has just got its record, with zero counts.
C7_OneRecordPerTextDocument ==
    pc \in {"loop", "returned"} =>
        LET kept == SelectSeq(SubSeq(jobs, 1, i), HasText)
        IN /\ pc = "returned" => i = Len(jobs)
           /\ Len(results) = Len(kept)
           /\ \A k \in 1..Len(results) :
                 /\ results[k].folder = kept[k].folder
                 /\ results[k].filename = kept[k].filename
           /\ (i >= 1 /\ HasText(jobs[i]) /\ text = << >>) =>
                 /\ LastRecord.filename = jobs[i].filename
                 /\ LastRecord.total = 0
                 /\ DictKeys(LastRecord.counts) = Dedup(adjectives)
                 /\ \A n \in 1..Len(LastRecord.counts) : LastRecord.counts[n][2] = 0

C7_Witness ==
    /\ pc = "returned" /\ Len(jobs) = 3 /\ exclude_refs /\ adjectives = Scenario1Words
    /\ ~HasText(jobs[1]) /\ jobs[2].filename = "backmatter.pdf"
    /\ jobs[3].filename = "paper.pdf"
    /\ Len(results) = 2 /\ results[1].filename = "backmatter.pdf" /\ results[1].total = 0
    /\ results[2].filename = "paper.pdf" /\ results[2].total = 3

\* the lines of the file that hold a word: trimmed, not empty, no comment
WordLines == SelectSeq([k \in 1..Len(file_lines) |-> Strip(file_lines[k])],
                       LAMBDA l : l # << >> /\ l[1] # "#")

\* C8: load_adjectives_from_file does not raise; it returns the word lines
\* of the file, lower-cased, in order and with their repetitions, when the
\* file exists, is read without failure and has a word line, and the
\* built-in list in every other case.
C8_LoadOrDefault ==
    /\ load_pc # "raised"
    /\ load_pc = "returned" =>
          loaded = IF file_exists /\ file_fault = {} /\ WordLines # << >>
                   THEN [k \in 1..Len(WordLines) |-> Lower(WordLines[k])]
                   ELSE DEFAULT_ADJECTIVES

C8_Witness ==
    /\ load_pc = "returned" /\ file_fault # {} /\ words # << >>
    /\ loaded = DEFAULT_ADJECTIVES

\* the start offsets of the lines of s, as "\n" delimits them
LineStarts(s) == {0} \cup {p \in 1..Len(s) : s[p] = "\n"}

\* the line of s that starts at offset p, without its "\n"
LineAt(s, p) ==
    LET ends == {q \in p..Len(s) : q = Len(s) \/ s[q + 1] = "\n"}
    IN SubSeq(s, p + 1, SetMin(ends))

\* a heading on a line of its own: an optional enumeration or Roman numeral,
\* a heading phrase, an optional colon or dash
HeadingLineRx ==
    Cat(<<Opt(Alt(<<Cat(<<Plus(ReD), Opt(Lit(<<".">>))>>),
                    Cat(<<Plus(Cls({"I", "V", "X", "L", "C"})), Opt(Lit(<<".">>))>>)>>)),
          Star(ReS), Alt(_REFERENCE_HEADINGS), Star(ReS),
          Opt(Cls({":", "-", EnDash, EmDash}))>>)

IsHeadingLine(line) ==
    LET trimmed == Strip(line) IN Len(trimmed) \in ReEnds(HeadingLineRx, trimmed, {0})

HeadingLineStarts(s) == {p \in LineStarts(s) : IsHeadingLine(LineAt(s, p))}

\* C9 as stated: when the text has a heading line, the body is the text
\* before the start of the first heading line, also when blank lines come
\* before that line.
C9_Stated ==
    (strip_pc # "called" /\ HeadingLineStarts(strip_text) # {}) =>
        strip_body = Prefix(strip_text, SetMin(HeadingLineStarts(strip_text)))

\* the windows of the density scan that hold at least 3 reference entries,
\* as start indexes; a window is 4 lines, or the lines left at the end of
\* the document when cut_short allows them
DenseWindows(lines, cut_short) ==
    {w \in 0..(Len(lines) - 1) :
        /\ cut_short \/ w + 4 <= Len(lines)
        /\ Cardinality({k \in (w + 1)..(w + 4) :
                            k <= Len(lines) /\ looks_like_reference(lines[k])}) >= 3}

\* what C10 says of a text without heading match, for a given kind of window
DensityScanCuts(cut_short) ==
    (strip_pc = "returned" /\ FirstMatchStart(_REFERENCE_SPLIT_RX, strip_text) = -1) =>
        LET lines == SplitLines(strip_text)
            dense == DenseWindows(lines, cut_short)
        IN IF dense # {}
           THEN strip_body = Join(<<"\n">>, SubSeq(lines, 1, SetMin(dense)))
           ELSE strip_body = Fallback(strip_text)

\* C10 as stated: without heading match the body is the lines before the
\* first window of 4 lines with at least 3 reference entries, and the scan
\* cuts nothing when no window of 4 lines has 3 of them.
C10_Stated == DensityScanCuts(FALSE)

\* C10 amended: without heading match the body is the lines before the
\* first window with at least 3 reference entries, joined by "\n", where a
\* window is 4 consecutive lines or, at the end of the document, the lines
\* that are left; the scan cuts nothing when no such window exists.
C10_DensityScan == DensityScanCuts(TRUE)

C10_Witness ==
    /\ strip_pc = "returned"
    /\ FirstMatchStart(_REFERENCE_SPLIT_RX, strip_text) = -1
    /\ Len(SplitLines(strip_text)) >= 5
    /\ strip_body # << >> /\ strip_body # strip_text

\* every line of the text looks like a reference entry, and there is one
AllReferenceLines(s) ==
    LET lines == SplitLines(s)
    IN Len(lines) >= 1 /\ \A k \in 1..Len(lines) : looks_like_reference(lines[k])

\* C11 as stated: a document without heading line whose lines all look like
\* reference entries gets the empty body, whatever its number of lines.
C11_Stated ==
    (/\ strip_pc = "returned"
     /\ HeadingLineStarts(strip_text) = {}
     /\ AllReferenceLines(strip_text)) => strip_body = << >>

\* C11 amended: a document without heading match whose lines all look like
\* reference entries gets the empty body when it has 3 lines or more; with
\* 1 or 2 lines the density scan cuts nothing and the body is what the
\* fallback leaves of the text.
C11_AllReferences ==
    (/\ strip_pc = "returned"
     /\ FirstMatchStart(_REFERENCE_SPLIT_RX, strip_text) = -1
     /\ AllReferenceLines(strip_text)) =>
        IF Len(SplitLines(strip_text)) >= 3
        THEN strip_body = << >>
        ELSE strip_body = Fallback(strip_text) /\ strip_body # << >>

C11_Witness ==
    /\ strip_pc = "returned"
    /\ AllReferenceLines(strip_text)
    /\ Len(SplitLines(strip_text)) = 3
    /\ FirstMatchStart(_REFERENCE_SPLIT_RX, strip_text) = -1
    /\ strip_body = << >>

\* the offsets at which "references" occurs in s, in any letter case
ReferencesOffsets(s) ==
    LET word == <<"r","e","f","e","r","e","n","c","e","s">>
        low == Lower(s)
    IN {p \in 0..(Len(s) - Len(word)) : SubSeq(low, p + 1, p + Len(word)) = word}

\* the occurrences past the midpoint of s by character count
LateReferencesOffsets(s) == {p \in ReferencesOffsets(s) : 2 * p > Len(s)}

\* C12 as stated: when neither the heading match nor the density scan cuts,
\* a text with "references" at an offset past its midpoint is truncated at
\* such an offset, also when an earlier occurrence lies before the midpoint;
\* a text without an occurrence past the midpoint is returned unchanged.
C12_Stated ==
    (/\ strip_pc = "returned"
     /\ FirstMatchStart(_REFERENCE_SPLIT_RX, strip_text) = -1
     /\ SlidingWindow(SplitLines(strip_text), 0) = -1) =>
        IF LateReferencesOffsets(strip_text) # {}
        THEN \E p \in LateReferencesOffsets(strip_text) : strip_body = Prefix(strip_text, p)
        ELSE strip_body = strip_text
====
